---- MODULE Spec2Model ----
\* Binary-tree construction from serialized traversals and the tree metrics
\* (src/Problem.py, src/problemvar.py, src/tempCodeRunnerFile.py, src/firtst1.py).
\*
\* Conventions of the model
\*   - A Python list is a sequence of integers, a Python str is a sequence of
\*     one-character strings; an argument carries its type: [type, items].
\*   - Python indices are 0-based, sequences here 1-based: level_order[i] of the
\*     source is level_order[i + 1] here.  Cursors keep their Python value.
\*   - A tree is the value reachable from its root reference: None is the empty
\*     tuple, a TreeNode is <<data, left, right>>.
\*   - A call ends in an outcome: it returns a value or raises an exception.
EXTENDS Integers, Sequences, FiniteSets, TLC

\* ---------------------------------------------------------------- bounds
MaxLen == 4
MaxNodes == 6
MaxLevelLen == 8
MaxStrLen == 7

\* ------------------------------------------------------------ node model
\* TreeNode.left / .right / root reference holding None.
Nil == <<>>

\* class TreeNode: __init__(data) leaves both children None.
TreeNode(d) == <<d, Nil, Nil>>

data(t) == t[1]
left(t) == t[2]
right(t) == t[3]
SetLeft(t, l) == <<t[1], l, t[3]>>
SetRight(t, r) == <<t[1], t[2], r>>

\* ------------------------------------------------------- python values
\* The None object as a method argument or detector result: distinct from
\* every str a caller can pass as a format name.
None == "<None>"

PyList(items) == [type |-> "list", items |-> items]
PyStr(items) == [type |-> "str", items |-> items]

Range(s) == {s[k] : k \in 1..Len(s)}

\* How a call ends.
Return(v) == [kind |-> "return", value |-> v, exc |-> ""]
Raise(e) == [kind |-> "raise", value |-> Nil, exc |-> e]

\* -------------------------------------------------------- format detector
\* Mutant of detect_input_format: the -999 test left out of line 14.
detect_input_format_only_minus1(input_data) ==
    IF Len(input_data.items) = 0 THEN None
    ELSE IF input_data.type = "list" /\ -1 \in Range(input_data.items)
         THEN "level_order"
    ELSE IF input_data.type = "str"
            /\ Range(input_data.items) \cap {"(", ")"} # {}
         THEN "parenthesis"
    ELSE "pre_order"

\* AdvancedTreeConstructor.detect_input_format
detect_input_format(input_data) ==
    IF Len(input_data.items) = 0 THEN None
    ELSE IF input_data.type = "list"
            /\ (-1 \in Range(input_data.items) \/ -999 \in Range(input_data.items))
         THEN "level_order"
    ELSE IF input_data.type = "str"
            /\ Range(input_data.items) \cap {"(", ")"} # {}
         THEN "parenthesis"
    ELSE "pre_order"

\* ------------------------------------------------------------ level order
\* Mutant of level_order_body: the right child stored in current.left.
level_order_body_right_into_left(st, level_order, null_marker) ==
    LET n == Len(level_order)
        current == Head(st.queue)
        q0 == Tail(st.queue)
        i1 == st.i
        mkL == i1 < n /\ level_order[i1 + 1] # null_marker
        nodesL == IF mkL
                  THEN Append([st.nodes EXCEPT ![current].left = Len(st.nodes) + 1],
                              [data |-> level_order[i1 + 1], left |-> 0, right |-> 0])
                  ELSE st.nodes
        q1 == IF mkL THEN Append(q0, Len(nodesL)) ELSE q0
        i2 == i1 + 1
        mkR == i2 < n /\ level_order[i2 + 1] # null_marker
        nodesR == IF mkR
                  THEN Append([nodesL EXCEPT ![current].left = Len(nodesL) + 1],
                              [data |-> level_order[i2 + 1], left |-> 0, right |-> 0])
                  ELSE nodesL
        q2 == IF mkR THEN Append(q1, Len(nodesR)) ELSE q1
    IN [nodes |-> nodesR, queue |-> q2, i |-> i2 + 1]

\* Mutant of level_order_body: queue.pop() for queue.pop(0), the node queued
\* last served first.
level_order_body_pop_last(st, level_order, null_marker) ==
    LET n == Len(level_order)
        current == st.queue[Len(st.queue)]
        q0 == SubSeq(st.queue, 1, Len(st.queue) - 1)
        i1 == st.i
        mkL == i1 < n /\ level_order[i1 + 1] # null_marker
        nodesL == IF mkL
                  THEN Append([st.nodes EXCEPT ![current].left = Len(st.nodes) + 1],
                              [data |-> level_order[i1 + 1], left |-> 0, right |-> 0])
                  ELSE st.nodes
        q1 == IF mkL THEN Append(q0, Len(nodesL)) ELSE q0
        i2 == i1 + 1
        mkR == i2 < n /\ level_order[i2 + 1] # null_marker
        nodesR == IF mkR
                  THEN Append([nodesL EXCEPT ![current].right = Len(nodesL) + 1],
                              [data |-> level_order[i2 + 1], left |-> 0, right |-> 0])
                  ELSE nodesL
        q2 == IF mkR THEN Append(q1, Len(nodesR)) ELSE q1
    IN [nodes |-> nodesR, queue |-> q2, i |-> i2 + 1]

\* One pass of the while body of build_from_level_order (Problem.py 49-59) on
\* the loop's variables: nodes holds the TreeNode objects in creation order
\* (left / right are positions in nodes, 0 for None), queue holds positions.
level_order_body(st, level_order, null_marker) ==
    LET n == Len(level_order)
        current == Head(st.queue)
        q0 == Tail(st.queue)
        i1 == st.i
        mkL == i1 < n /\ level_order[i1 + 1] # null_marker
        nodesL == IF mkL
                  THEN Append([st.nodes EXCEPT ![current].left = Len(st.nodes) + 1],
                              [data |-> level_order[i1 + 1], left |-> 0, right |-> 0])
                  ELSE st.nodes
        q1 == IF mkL THEN Append(q0, Len(nodesL)) ELSE q0
        i2 == i1 + 1
        mkR == i2 < n /\ level_order[i2 + 1] # null_marker
        nodesR == IF mkR
                  THEN Append([nodesL EXCEPT ![current].right = Len(nodesL) + 1],
                              [data |-> level_order[i2 + 1], left |-> 0, right |-> 0])
                  ELSE nodesL
        q2 == IF mkR THEN Append(q1, Len(nodesR)) ELSE q1
    IN [nodes |-> nodesR, queue |-> q2, i |-> i2 + 1]

\* The loop's variables after root = TreeNode(level_order[0]); queue = [root]; i = 1.
level_order_enter(level_order) ==
    [nodes |-> <<[data |-> level_order[1], left |-> 0, right |-> 0]>>,
     queue |-> <<1>>, i |-> 1]

\* while queue and i < len(level_order)
level_order_guard(st, level_order) ==
    Len(st.queue) > 0 /\ st.i < Len(level_order)

RECURSIVE level_order_loop(_, _, _)
level_order_loop(st, level_order, null_marker) ==
    IF level_order_guard(st, level_order)
    THEN level_order_loop(level_order_body(st, level_order, null_marker),
                          level_order, null_marker)
    ELSE st

\* The tree value reachable from the node at position k of nodes.
RECURSIVE TreeAt(_, _)
TreeAt(nodes, k) ==
    IF k = 0 THEN Nil
    ELSE <<nodes[k].data, TreeAt(nodes, nodes[k].left), TreeAt(nodes, nodes[k].right)>>

\* AdvancedTreeConstructor.build_from_level_order(level_order, null_marker=-1)
build_from_level_order(level_order, null_marker) ==
    IF Len(level_order) = 0 \/ level_order[1] = null_marker THEN Nil
    ELSE TreeAt(level_order_loop(level_order_enter(level_order),
                                 level_order, null_marker).nodes, 1)

\* -------------------------------------------- level order, set of markers
\* null_markers = {-1, -999, None} (firtst1.py 45-46); a list of the model
\* holds integers only, so None never occurs as an element.
DefaultNullMarkers == {-1, -999}

\* One pass of the while body of LevelOrderTreeConstructor.build_tree
\* (firtst1.py 66-79), on the same loop variables as level_order_body.
LevelOrderTreeConstructor_body(st, level_order, null_markers) ==
    LET n == Len(level_order)
        current == Head(st.queue)
        q0 == Tail(st.queue)
        i1 == st.i
        mkL == i1 < n /\ level_order[i1 + 1] \notin null_markers
        nodesL == IF mkL
                  THEN Append([st.nodes EXCEPT ![current].left = Len(st.nodes) + 1],
                              [data |-> level_order[i1 + 1], left |-> 0, right |-> 0])
                  ELSE st.nodes
        q1 == IF mkL THEN Append(q0, Len(nodesL)) ELSE q0
        i2 == i1 + 1
        mkR == i2 < n /\ level_order[i2 + 1] \notin null_markers
        nodesR == IF mkR
                  THEN Append([nodesL EXCEPT ![current].right = Len(nodesL) + 1],
                              [data |-> level_order[i2 + 1], left |-> 0, right |-> 0])
                  ELSE nodesL
        q2 == IF mkR THEN Append(q1, Len(nodesR)) ELSE q1
    IN [nodes |-> nodesR, queue |-> q2, i |-> i2 + 1]

RECURSIVE LevelOrderTreeConstructor_loop(_, _, _)
LevelOrderTreeConstructor_loop(st, level_order, null_markers) ==
    IF level_order_guard(st, level_order)
    THEN LevelOrderTreeConstructor_loop(
             LevelOrderTreeConstructor_body(st, level_order, null_markers),
             level_order, null_markers)
    ELSE st

\* while level_order and level_order[0] in null_markers: level_order.pop(0)
RECURSIVE strip_leading(_, _)
strip_leading(level_order, null_markers) ==
    IF Len(level_order) > 0 /\ level_order[1] \in null_markers
    THEN strip_leading(Tail(level_order), null_markers)
    ELSE level_order

\* LevelOrderTreeConstructor.build_tree(level_order, null_markers): the root it
\* returns and the caller's list object as the call leaves it.
LevelOrderTreeConstructor_build_tree(level_order, null_markers) ==
    IF Len(level_order) = 0 \/ \A k \in 1..Len(level_order) : level_order[k] \in null_markers
    THEN [root |-> Nil, level_order |-> level_order]
    ELSE LET lo == strip_leading(level_order, null_markers)
         IN [root |-> TreeAt(LevelOrderTreeConstructor_loop(level_order_enter(lo),
                                                            lo, null_markers).nodes, 1),
             level_order |-> lo]

\* ------------------------------------------------------------ parenthesis
\* str.isdigit() on the characters of the model's alphabet.
Digits == {"0", "1", "2", "3", "4", "5", "6", "7", "8", "9"}
isdigit(c) == c \in Digits

DigitVal(c) ==
    CASE c = "0" -> 0 [] c = "1" -> 1 [] c = "2" -> 2 [] c = "3" -> 3 [] c = "4" -> 4
      [] c = "5" -> 5 [] c = "6" -> 6 [] c = "7" -> 7 [] c = "8" -> 8 [] c = "9" -> 9

RECURSIVE DecimalValue(_)
DecimalValue(tok) ==
    IF Len(tok) = 0 THEN 0
    ELSE 10 * DecimalValue(SubSeq(tok, 1, Len(tok) - 1)) + DigitVal(tok[Len(tok)])

\* int(s[start:i]) on a token made of digits and '-' (the only characters the
\* scan lets into it): an optional sign then at least one digit, else
\* ValueError.
int(tok) ==
    LET body == IF Len(tok) > 0 /\ tok[1] = "-" THEN Tail(tok) ELSE tok
    IN IF Len(body) > 0 /\ \A k \in 1..Len(body) : isdigit(body[k])
       THEN IF Len(tok) > 0 /\ tok[1] = "-"
            THEN Return(0 - DecimalValue(body))
            ELSE Return(DecimalValue(body))
       ELSE Raise("ValueError")

\* while i < len(s) and (s[i].isdigit() or s[i] == '-'): i += 1
RECURSIVE scan_value(_, _)
scan_value(s, i) ==
    IF i < Len(s) /\ (isdigit(s[i + 1]) \/ s[i + 1] = "-")
    THEN scan_value(s, i + 1)
    ELSE i

\* Mutant of parse_tree: the i += 1 that skips ')' after the left group left out.
RECURSIVE parse_tree_no_skip(_, _)
parse_tree_no_skip(s, i0) ==
    LET i1 == scan_value(s, i0)
        v == int(SubSeq(s, i0 + 1, i1))
    IN IF v.kind = "raise" THEN [out |-> v, i |-> i1]
       ELSE
       LET node == TreeNode(v.value)
           hasL == i1 < Len(s) /\ s[i1 + 1] = "("
           pl == IF hasL THEN parse_tree_no_skip(s, i1 + 1)
                 ELSE [out |-> Return(Nil), i |-> i1]
       IN IF pl.out.kind = "raise" THEN pl
          ELSE
          LET nodeL == IF hasL THEN SetLeft(node, pl.out.value) ELSE node
              i2 == IF hasL THEN pl.i ELSE i1
              hasR == i2 < Len(s) /\ s[i2 + 1] = "("
              pr == IF hasR THEN parse_tree_no_skip(s, i2 + 1)
                    ELSE [out |-> Return(Nil), i |-> i2]
          IN IF pr.out.kind = "raise" THEN pr
             ELSE
             LET nodeR == IF hasR THEN SetRight(nodeL, pr.out.value) ELSE nodeL
                 i3 == IF hasR THEN pr.i + 1 ELSE i2
             IN [out |-> Return(nodeR), i |-> i3]

\* parse_tree() of build_from_parenthesis with the nonlocal cursor i passed in
\* and handed back: [out |-> the call's outcome, i |-> the cursor after it].
RECURSIVE parse_tree(_, _)
parse_tree(s, i0) ==
    LET i1 == scan_value(s, i0)
        v == int(SubSeq(s, i0 + 1, i1))
    IN IF v.kind = "raise" THEN [out |-> v, i |-> i1]
       ELSE
       LET node == TreeNode(v.value)
           hasL == i1 < Len(s) /\ s[i1 + 1] = "("
           pl == IF hasL THEN parse_tree(s, i1 + 1) ELSE [out |-> Return(Nil), i |-> i1]
       IN IF pl.out.kind = "raise" THEN pl
          ELSE
          LET nodeL == IF hasL THEN SetLeft(node, pl.out.value) ELSE node
              i2 == IF hasL THEN pl.i + 1 ELSE i1
              hasR == i2 < Len(s) /\ s[i2 + 1] = "("
              pr == IF hasR THEN parse_tree(s, i2 + 1) ELSE [out |-> Return(Nil), i |-> i2]
          IN IF pr.out.kind = "raise" THEN pr
             ELSE
             LET nodeR == IF hasR THEN SetRight(nodeL, pr.out.value) ELSE nodeL
                 i3 == IF hasR THEN pr.i + 1 ELSE i2
             IN [out |-> Return(nodeR), i |-> i3]

\* AdvancedTreeConstructor.build_from_parenthesis(s): i = 0; parse_tree() if s
\* else None.  A non-empty list argument fails at s[i].isdigit(): int has no
\* such attribute.
build_from_parenthesis(s) ==
    IF Len(s.items) = 0 THEN Return(Nil)
    ELSE IF s.type = "list" THEN Raise("AttributeError")
    ELSE parse_tree(s.items, 0).out

\* --------------------------------------------------- pre-order, post-order
\* Mutant of pre_order_build_recursive: the cursor passed by value, so the
\* right subtree starts where the left one started.
RECURSIVE pre_order_build_recursive_cursor_by_value(_, _)
pre_order_build_recursive_cursor_by_value(pre_order, index) ==
    IF index >= Len(pre_order) THEN [node |-> Nil, index |-> index]
    ELSE LET root == TreeNode(pre_order[index + 1])
             l == pre_order_build_recursive_cursor_by_value(pre_order, index + 1)
             r == pre_order_build_recursive_cursor_by_value(pre_order, index + 1)
         IN [node |-> SetRight(SetLeft(root, l.node), r.node), index |-> r.index]

\* Mutant of pre_order_build_recursive: root.right built before root.left.
RECURSIVE pre_order_build_recursive_right_first(_, _)
pre_order_build_recursive_right_first(pre_order, index) ==
    IF index >= Len(pre_order) THEN [node |-> Nil, index |-> index]
    ELSE LET root == TreeNode(pre_order[index + 1])
             r == pre_order_build_recursive_right_first(pre_order, index + 1)
             l == pre_order_build_recursive_right_first(pre_order, r.index)
         IN [node |-> SetLeft(SetRight(root, r.node), l.node), index |-> l.index]

\* build_recursive(index) of build_from_pre_order, the one-cell list index
\* passed in and handed back: [node, index].
RECURSIVE pre_order_build_recursive(_, _)
pre_order_build_recursive(pre_order, index) ==
    IF index >= Len(pre_order) THEN [node |-> Nil, index |-> index]
    ELSE LET root == TreeNode(pre_order[index + 1])
             l == pre_order_build_recursive(pre_order, index + 1)
             r == pre_order_build_recursive(pre_order, l.index)
         IN [node |-> SetRight(SetLeft(root, l.node), r.node), index |-> r.index]

\* AdvancedTreeConstructor.build_from_pre_order
build_from_pre_order(pre_order) ==
    IF Len(pre_order) = 0 THEN Nil
    ELSE pre_order_build_recursive(pre_order, 0).node

\* Mutant of post_order_build_recursive: root.left built before root.right.
RECURSIVE post_order_build_recursive_left_first(_, _)
post_order_build_recursive_left_first(post_order, index) ==
    IF index < 0 THEN [node |-> Nil, index |-> index]
    ELSE LET root == TreeNode(post_order[index + 1])
             l == post_order_build_recursive_left_first(post_order, index - 1)
             r == post_order_build_recursive_left_first(post_order, l.index)
         IN [node |-> SetRight(SetLeft(root, l.node), r.node), index |-> r.index]

\* build_recursive(index) of build_from_post_order: [node, index].
RECURSIVE post_order_build_recursive(_, _)
post_order_build_recursive(post_order, index) ==
    IF index < 0 THEN [node |-> Nil, index |-> index]
    ELSE LET root == TreeNode(post_order[index + 1])
             r == post_order_build_recursive(post_order, index - 1)
             l == post_order_build_recursive(post_order, r.index)
         IN [node |-> SetLeft(SetRight(root, r.node), l.node), index |-> l.index]

\* AdvancedTreeConstructor.build_from_post_order
build_from_post_order(post_order) ==
    IF Len(post_order) = 0 THEN Nil
    ELSE post_order_build_recursive(post_order, Len(post_order) - 1).node

\* build_from_in_order (problemvar.py 163-170): always raises.
build_from_in_order(in_order) == Raise("NotImplementedError")

\* --------------------------------------------------------------- dispatch
\* construction_methods.get(method)(input_data) of Problem.py 27-36; "" when
\* the table has no such key.
construction_methods == {"level_order", "pre_order", "parenthesis", "post_order"}

constructor_call(method, input_data) ==
    CASE method = "level_order" -> Return(build_from_level_order(input_data.items, -1))
      [] method = "pre_order" -> Return(build_from_pre_order(input_data.items))
      [] method = "post_order" -> Return(build_from_post_order(input_data.items))
      [] method = "parenthesis" -> build_from_parenthesis(input_data)

\* AdvancedTreeConstructor.build_tree(input_data, method=None) of Problem.py
build_tree(input_data, method) ==
    LET m == IF method = None THEN detect_input_format(input_data) ELSE method
    IN IF m \in construction_methods
       THEN constructor_call(m, input_data)
       ELSE Raise("ValueError")

\* construction_methods of problemvar.py 54-60: in_order is a key.
problemvar_construction_methods ==
    {"level_order", "pre_order", "parenthesis", "in_order", "post_order"}

\* AdvancedTreeConstructor.build_tree of problemvar.py (tempCodeRunnerFile.py
\* is the same text): every exception is caught, printed, and None returned.
problemvar_build_tree(input_data, method) ==
    LET m == IF method = None THEN detect_input_format(input_data) ELSE method
        inner == IF m \in problemvar_construction_methods
                 THEN IF m = "in_order" THEN build_from_in_order(input_data.items)
                      ELSE constructor_call(m, input_data)
                 ELSE Raise("ValueError")
    IN IF inner.kind = "raise" THEN Return(Nil) ELSE inner

\* ---------------------------------------------------------------- metrics
\* Mutant of max_depth: the empty tree counted as -1 (height in edges).
RECURSIVE max_depth_in_edges(_)
max_depth_in_edges(root) ==
    IF root = Nil THEN -1
    ELSE LET left_depth == max_depth_in_edges(left(root))
             right_depth == max_depth_in_edges(right(root))
         IN 1 + (IF left_depth > right_depth THEN left_depth ELSE right_depth)

\* LevelOrderTreeConstructor.max_depth / AdvancedTreeConstructor.max_depth
RECURSIVE max_depth(_)
max_depth(root) ==
    IF root = Nil THEN 0
    ELSE LET left_depth == max_depth(left(root))
             right_depth == max_depth(right(root))
         IN 1 + (IF left_depth > right_depth THEN left_depth ELSE right_depth)

max(a, b) == IF a >= b THEN a ELSE b
abs(a) == IF a < 0 THEN 0 - a ELSE a

\* check_height(node) of is_balanced_tree: <<is_balanced, height>>
RECURSIVE check_height(_)
check_height(node) ==
    IF node = Nil THEN <<TRUE, 0>>
    ELSE LET l == check_height(left(node))
             r == check_height(right(node))
             height_diff == abs(l[2] - r[2])
             current_balanced == l[1] /\ r[1] /\ height_diff <= 1
         IN <<current_balanced, 1 + max(l[2], r[2])>>

\* Mutant of is_balanced_tree: the heights compared at the root only.
is_balanced_tree_root_only(root) ==
    root = Nil \/ abs(max_depth(left(root)) - max_depth(right(root))) <= 1

\* LevelOrderTreeConstructor.is_balanced_tree
is_balanced_tree(root) == check_height(root)[1]

\* Mutant of diameter_helper: the path through a node counted one too long.
RECURSIVE diameter_helper_plus2(_)
diameter_helper_plus2(node) ==
    IF node = Nil THEN <<0, 0>>
    ELSE LET l == diameter_helper_plus2(left(node))
             r == diameter_helper_plus2(right(node))
             current_diameter == max(max(l[1], r[1]), l[2] + r[2] + 2)
         IN <<current_diameter, 1 + max(l[2], r[2])>>

\* diameter_helper(node) of tree_diameter: <<diameter, height>>
RECURSIVE diameter_helper(_)
diameter_helper(node) ==
    IF node = Nil THEN <<0, 0>>
    ELSE LET l == diameter_helper(left(node))
             r == diameter_helper(right(node))
             current_diameter == max(max(l[1], r[1]), l[2] + r[2] + 1)
         IN <<current_diameter, 1 + max(l[2], r[2])>>

\* tree_diameter
tree_diameter(root) == diameter_helper(root)[1]

\* ------------------------------------------------------------------ state
VARIABLES
    pc,          \* where the caller is: ready / loop / returned / raised / ...
    input_data,  \* the caller's argument object (a list or a str)
    method,      \* the format argument of build_tree, None when left out
    null_marker, \* the null_marker argument of build_from_level_order
    op,          \* the operation called last
    result,      \* how that call ended
    tree,        \* the root reference the caller holds
    loop,        \* nodes, queue and i of the level-order while loop
    depth,       \* max_depth(tree) once measured
    balanced,    \* is_balanced_tree(tree) once measured
    diameter,    \* tree_diameter(tree) once measured
    passed,      \* the argument as it was when the caller passed it
    origin       \* per node of loop.nodes, the input position it was made from

vars == <<pc, input_data, method, null_marker, op, result, tree, loop,
          depth, balanced, diameter, passed, origin>>

\* ----------------------------------------------------------------- inputs
\* Elements of the lists a caller passes: both detector markers and two values.
ListValues == {-1, -999, 1, 2}
\* Characters of the texts a caller passes.
Chars == {"1", "-", "(", ")", "x"}

SeqsUpTo(S, n) == UNION {[1..k -> S] : k \in 0..n}

ListInputs == {PyList(l) : l \in SeqsUpTo(ListValues, MaxLen)}
StrInputs == {PyStr(t) : t \in SeqsUpTo(Chars, MaxLen)}

\* Format arguments: left out, the four supported names, and names outside them.
SupportedNames == {"level_order", "pre_order", "post_order", "parenthesis"}
OtherNames == {"in_order", "inorder", "Level_Order", ""}
MethodArgs == {None} \cup SupportedNames \cup OtherNames

NoResult == [kind |-> "none", value |-> Nil, exc |-> ""]
NoLoop == [nodes |-> <<>>, queue |-> <<>>, i |-> 0]

Blank ==
    /\ method = None
    /\ null_marker = -1
    /\ op = "none"
    /\ result = NoResult
    /\ loop = NoLoop
    /\ depth = -1
    /\ balanced = FALSE
    /\ diameter = -1
    /\ origin = <<>>

Init ==
    /\ pc = "ready"
    /\ (input_data \in ListInputs \/ input_data \in StrInputs)
    /\ passed = input_data
    /\ tree = Nil
    /\ Blank

\* The caller's state after a call that ended in outcome out: on a return of
\* a tree the caller holds it as its root.
Ended(name, out) ==
    /\ op' = name
    /\ result' = out
    /\ pc' = IF out.kind = "raise" THEN "raised" ELSE "returned"
    /\ tree' = IF out.kind = "raise" THEN tree ELSE out.value

\* A comparison of a str element with the integer marker is False in Python;
\* the model leaves that call (level_order named for a non-empty str) out.
Comparable(arg, m) ==
    ~(arg.type = "str" /\ Len(arg.items) > 0 /\ m = "level_order")

\* ---------------------------------------------------------------- actions
DetectInputFormat ==
    /\ pc = "ready"
    /\ op' = "detect_input_format"
    /\ result' = Return(detect_input_format(input_data))
    /\ pc' = "detected"
    /\ UNCHANGED <<input_data, method, null_marker, tree, loop, depth, balanced, diameter, passed, origin>>

BuildTree ==
    /\ pc = "ready"
    /\ \E m \in MethodArgs :
          /\ Comparable(input_data, m)
          /\ method' = m
          /\ Ended("build_tree", build_tree(input_data, m))
    /\ UNCHANGED <<input_data, null_marker, loop, depth, balanced, diameter, passed, origin>>

ProblemvarBuildTree ==
    /\ pc = "ready"
    /\ \E m \in MethodArgs :
          /\ Comparable(input_data, m)
          /\ method' = m
          /\ Ended("problemvar_build_tree", problemvar_build_tree(input_data, m))
    /\ UNCHANGED <<input_data, null_marker, loop, depth, balanced, diameter, passed, origin>>

BuildFromParenthesis ==
    /\ pc = "ready"
    /\ input_data.type = "str"
    /\ Ended("build_from_parenthesis", build_from_parenthesis(input_data))
    /\ UNCHANGED <<input_data, method, null_marker, loop, depth, balanced, diameter, passed, origin>>

BuildFromPreOrder ==
    /\ pc = "ready"
    /\ input_data.type = "list"
    /\ Ended("build_from_pre_order", Return(build_from_pre_order(input_data.items)))
    /\ UNCHANGED <<input_data, method, null_marker, loop, depth, balanced, diameter, passed, origin>>

BuildFromPostOrder ==
    /\ pc = "ready"
    /\ input_data.type = "list"
    /\ Ended("build_from_post_order", Return(build_from_post_order(input_data.items)))
    /\ UNCHANGED <<input_data, method, null_marker, loop, depth, balanced, diameter, passed, origin>>

\* build_from_level_order, statement by statement: the early return or the
\* loop's initialisation (Problem.py 41-46) ...
LevelOrderCall ==
    /\ pc = "ready"
    /\ input_data.type = "list"
    /\ \E nm \in {-1, -999} :
          /\ null_marker' = nm
          /\ IF Len(input_data.items) = 0 \/ input_data.items[1] = nm
             THEN /\ Ended("build_from_level_order", Return(Nil))
                  /\ loop' = loop
                  /\ origin' = origin
             ELSE /\ pc' = "loop"
                  /\ op' = "build_from_level_order"
                  /\ loop' = level_order_enter(input_data.items)
                  /\ origin' = <<0>>
                  /\ UNCHANGED <<result, tree>>
    /\ UNCHANGED <<input_data, method, depth, balanced, diameter, passed>>

\* The input positions the TreeNode(level_order[i]) calls of one pass read:
\* line 52 at the i the pass starts with, line 57 at the next one, each under
\* the condition of its if.
MadeFrom(st, level_order, null_marker_) ==
    (IF st.i < Len(level_order) /\ level_order[st.i + 1] # null_marker_
     THEN <<st.i>> ELSE <<>>)
    \o (IF st.i + 1 < Len(level_order) /\ level_order[st.i + 2] # null_marker_
        THEN <<st.i + 1>> ELSE <<>>)

\* ... one pass of the while loop (Problem.py 48-59) ...
LevelOrderIter ==
    /\ pc = "loop"
    /\ level_order_guard(loop, input_data.items)
    /\ loop' = level_order_body(loop, input_data.items, null_marker)
    /\ origin' = origin \o MadeFrom(loop, input_data.items, null_marker)
    /\ UNCHANGED <<pc, input_data, method, null_marker, op, result, tree,
                   depth, balanced, diameter, passed>>

\* ... and return root (Problem.py 61).
LevelOrderReturn ==
    /\ pc = "loop"
    /\ ~level_order_guard(loop, input_data.items)
    /\ Ended("build_from_level_order", Return(TreeAt(loop.nodes, 1)))
    /\ UNCHANGED <<input_data, method, null_marker, loop, depth, balanced, diameter, passed, origin>>

\* LevelOrderTreeConstructor.build_tree on the caller's own list with the
\* default markers: the call pops the leading markers off that list.
LevelOrderTreeConstructorBuildTree ==
    /\ pc = "ready"
    /\ input_data.type = "list"
    /\ LET r == LevelOrderTreeConstructor_build_tree(input_data.items, DefaultNullMarkers)
       IN /\ Ended("LevelOrderTreeConstructor_build_tree", Return(r.root))
          /\ input_data' = PyList(r.level_order)
    /\ UNCHANGED <<method, null_marker, loop, depth, balanced, diameter, passed, origin>>

\* The three metrics on the root the caller holds (firtst1.py 216-218).
Measure ==
    /\ pc \in {"returned", "tree"}
    /\ op # "detect_input_format"
    /\ depth' = max_depth(tree)
    /\ balanced' = is_balanced_tree(tree)
    /\ diameter' = tree_diameter(tree)
    /\ pc' = "measured"
    /\ UNCHANGED <<input_data, method, null_marker, op, result, tree, loop, passed, origin>>

Next ==
    \/ DetectInputFormat
    \/ BuildTree
    \/ ProblemvarBuildTree
    \/ BuildFromParenthesis
    \/ BuildFromPreOrder
    \/ BuildFromPostOrder
    \/ LevelOrderCall
    \/ LevelOrderIter
    \/ LevelOrderReturn
    \/ LevelOrderTreeConstructorBuildTree
    \/ Measure

Spec == Init /\ [][Next]_vars

\* ------------------------------------------- the level-order loop alone
\* Elements of the longer lists given to build_from_level_order: the default
\* marker and two values.
LevelValues == {-1, 1, 2}

InitLevel ==
    /\ pc = "ready"
    /\ input_data \in {PyList(l) : l \in SeqsUpTo(LevelValues, MaxLevelLen)}
    /\ passed = input_data
    /\ tree = Nil
    /\ Blank

NextLevel ==
    \/ LevelOrderCall
    \/ LevelOrderIter
    \/ LevelOrderReturn

SpecLevel == InitLevel /\ [][NextLevel]_vars

\* ------------------------------------------------ parenthesized text alone
\* Characters of the longer texts given to build_from_parenthesis.
ParenChars == {"1", "2", "-", "(", ")"}

InitParen ==
    /\ pc = "ready"
    /\ input_data \in {PyStr(t) : t \in SeqsUpTo(ParenChars, MaxStrLen)}
    /\ passed = input_data
    /\ tree = Nil
    /\ Blank

NextParen == BuildFromParenthesis

SpecParen == InitParen /\ [][NextParen]_vars

\* ------------------------------------------------- trees given to metrics
\* Values the nodes of a given tree hold: an ordinary value, and -999, which
\* build_from_level_order's default marker -1 leaves an ordinary value.
TreeValues == {1, -999}

RECURSIVE TreesOfSize(_)
TreesOfSize(n) ==
    IF n = 0 THEN {Nil}
    ELSE UNION {{<<v, l, r>> : v \in TreeValues,
                               l \in TreesOfSize(k),
                               r \in TreesOfSize(n - 1 - k)} : k \in 0..(n - 1)}

Trees == UNION {TreesOfSize(n) : n \in 0..MaxNodes}

\* Breadth-first listing of the children of the queued nodes, an absent child
\* written as the marker.
RECURSIVE level_order_children(_, _)
level_order_children(q, marker) ==
    IF Len(q) = 0 THEN <<>>
    ELSE LET h == Head(q)
             l == left(h)
             r == right(h)
             ql == IF l = Nil THEN Tail(q) ELSE Append(Tail(q), l)
             qr == IF r = Nil THEN ql ELSE Append(ql, r)
         IN <<IF l = Nil THEN marker ELSE data(l), IF r = Nil THEN marker ELSE data(r)>>
            \o level_order_children(qr, marker)

\* The level-order serialization of a tree (the empty list for the empty tree).
level_order_serialize(t, marker) ==
    IF t = Nil THEN <<>>
    ELSE <<data(t)>> \o level_order_children(<<t>>, marker)

InitTree ==
    /\ pc = "tree"
    /\ tree \in Trees
    /\ input_data = PyList(<<>>)
    /\ passed = input_data
    /\ Blank

\* The caller writes its tree out in level order with -1 for absent children.
Serialize ==
    /\ pc = "tree"
    /\ input_data' = PyList(level_order_serialize(tree, -1))
    /\ passed' = input_data'
    /\ pc' = "serialized"
    /\ UNCHANGED <<method, null_marker, op, result, tree, loop, depth, balanced, diameter, origin>>

\* ... and builds from that list, keeping its tree to compare.
Rebuild ==
    /\ pc = "serialized"
    /\ op' = "build_from_level_order"
    /\ result' = Return(build_from_level_order(input_data.items, -1))
    /\ pc' = "rebuilt"
    /\ UNCHANGED <<input_data, method, null_marker, tree, loop, depth, balanced, diameter, passed, origin>>

RebuildLevelOrderTreeConstructor ==
    /\ pc = "serialized"
    /\ LET r == LevelOrderTreeConstructor_build_tree(input_data.items, DefaultNullMarkers)
       IN /\ op' = "LevelOrderTreeConstructor_build_tree"
          /\ result' = Return(r.root)
          /\ input_data' = PyList(r.level_order)
    /\ pc' = "rebuilt"
    /\ UNCHANGED <<method, null_marker, tree, loop, depth, balanced, diameter, passed, origin>>

NextTree ==
    \/ Measure
    \/ Serialize
    \/ Rebuild
    \/ RebuildLevelOrderTreeConstructor

SpecTree == InitTree /\ [][NextTree]_vars

\* ------------------------------------------------- vocabulary of the claims
\* The values held by the nodes of a tree.
RECURSIVE NodeValues(_)
NodeValues(t) ==
    IF t = Nil THEN {}
    ELSE {data(t)} \cup NodeValues(left(t)) \cup NodeValues(right(t))

\* The non-empty subtrees of a tree, one per node.
RECURSIVE Subtrees(_)
Subtrees(t) ==
    IF t = Nil THEN {}
    ELSE {t} \cup Subtrees(left(t)) \cup Subtrees(right(t))

RECURSIVE NodeCount(_)
NodeCount(t) ==
    IF t = Nil THEN 0 ELSE 1 + NodeCount(left(t)) + NodeCount(right(t))

\* Edges from a root down to its deepest node, -1 for the empty tree.
RECURSIVE EdgeHeight(_)
EdgeHeight(t) ==
    IF t = Nil THEN -1
    ELSE 1 + (IF EdgeHeight(left(t)) >= EdgeHeight(right(t))
              THEN EdgeHeight(left(t)) ELSE EdgeHeight(right(t)))

\* Edges on the longest path between two nodes of the tree: the best, over the
\* node where the path turns, of the two downward legs.
LongestPathEdges(t) ==
    IF t = Nil THEN 0
    ELSE LET through(s) == (EdgeHeight(left(s)) + 1) + (EdgeHeight(right(s)) + 1)
         IN CHOOSE m \in {through(s) : s \in Subtrees(t)} :
                \A s \in Subtrees(t) : through(s) <= m

\* Text of the parenthesized format: an integer, optionally followed by one
\* or two parenthesized nodes.  node_end is the cursor after the node that
\* starts at cursor i, -1 when none starts there.
RECURSIVE digits_end(_, _)
digits_end(s, i) ==
    IF i < Len(s) /\ s[i + 1] \in Digits THEN digits_end(s, i + 1) ELSE i

integer_end(s, i) ==
    LET j == IF i < Len(s) /\ s[i + 1] = "-" THEN i + 1 ELSE i
        k == digits_end(s, j)
    IN IF k > j THEN k ELSE -1

RECURSIVE node_end(_, _)
group_end(s, i) ==
    IF i < Len(s) /\ s[i + 1] = "("
    THEN LET j == node_end(s, i + 1)
         IN IF j >= 0 /\ j < Len(s) /\ s[j + 1] = ")" THEN j + 1 ELSE -1
    ELSE -1

node_end(s, i) ==
    LET v == integer_end(s, i)
    IN IF v < 0 THEN -1
       ELSE IF v < Len(s) /\ s[v + 1] = "("
            THEN LET g1 == group_end(s, v)
                 IN IF g1 < 0 THEN -1
                    ELSE IF g1 < Len(s) /\ s[g1 + 1] = "(" THEN group_end(s, g1)
                    ELSE g1
            ELSE v

WellFormedText(s) == Len(s) > 0 /\ node_end(s, 0) = Len(s)
MalformedText(s) == Len(s) > 0 /\ node_end(s, 0) # Len(s)

\* ----------------------------------------------------------------- claims
\* C1: for every explicit format name outside level_order, pre_order,
\* post_order and parenthesis, build_tree (of Problem.py and of problemvar.py)
\* ends in an error raised to its caller and returns no tree value.
C1_UnsupportedNameRaises ==
    (op \in {"build_tree", "problemvar_build_tree"} /\ method \in OtherNames)
        => result.kind = "raise"

\* C2: for empty input build_tree returns the empty tree without failing,
\* with the format left out and with each supported format named.
C2_EmptyInputEmptyTree ==
    (op = "build_tree" /\ Len(input_data.items) = 0
        /\ method \in {None} \cup SupportedNames)
        => result = Return(Nil)

\* C3: detect_input_format returns exactly one of no-format, level_order,
\* parenthesis, pre_order, the first that matches in this order: empty input,
\* a list holding -1 or -999, a text holding '(' or ')', anything else.
C3_DetectFirstMatch ==
    op = "detect_input_format" =>
        LET x == input_data
            empty == Len(x.items) = 0
            marked == x.type = "list" /\ \E k \in 1..Len(x.items) : x.items[k] \in {-1, -999}
            parens == x.type = "str" /\ \E k \in 1..Len(x.items) : x.items[k] \in {"(", ")"}
        IN /\ result.kind = "return"
           /\ result.value \in {None, "level_order", "parenthesis", "pre_order"}
           /\ (result.value = None) = empty
           /\ (result.value = "level_order") = (~empty /\ marked)
           /\ (result.value = "parenthesis") = (~empty /\ ~marked /\ parens)
           /\ (result.value = "pre_order") = (~empty /\ ~marked /\ ~parens)
           /\ (x.type = "list" /\ ~marked => result.value \notin {"level_order", "parenthesis"})

\* C3 witness: the detector has classified a list that holds -999 and no -1.
C3_Witness ==
    /\ op = "detect_input_format"
    /\ input_data.type = "list"
    /\ Len(input_data.items) > 1
    /\ input_data.items[1] = 1
    /\ -999 \in Range(input_data.items)
    /\ -1 \notin Range(input_data.items)
    /\ result.value = "level_order"

\* C4: when build_tree, the format left out, takes a list for level order
\* because it holds -1 or -999, no node of the tree it returns holds -1 or -999.
C4_NoMarkerInTree ==
    (op = "build_tree" /\ method = None /\ input_data.type = "list"
        /\ detect_input_format(input_data) = "level_order" /\ result.kind = "return")
        => NodeValues(result.value) \cap {-1, -999} = {}

\* C5: building from the level-order serialization of a tree none of whose
\* values is a null marker of the builder returns that tree, shape and values.
C5_LevelOrderRoundTrip ==
    pc = "rebuilt" =>
        /\ (op = "build_from_level_order" /\ -1 \notin NodeValues(tree))
               => result = Return(tree)
        /\ (op = "LevelOrderTreeConstructor_build_tree"
               /\ NodeValues(tree) \cap DefaultNullMarkers = {})
               => result = Return(tree)

\* C5 witness: a tree of depth 3 or more with a node that has a right child
\* only and a node holding -999 has come back from build_from_level_order.
C5_Witness ==
    /\ pc = "rebuilt"
    /\ op = "build_from_level_order"
    /\ max_depth(tree) >= 3
    /\ -999 \in NodeValues(tree)
    /\ \E s \in Subtrees(tree) : left(s) = Nil /\ right(s) # Nil
    /\ result = Return(tree)

\* C6: tree_diameter is the number of edges on the longest path between two
\* nodes of the tree (0 for a single node, 2 for a root with two leaves).
C6_DiameterCountsEdges ==
    pc = "measured" => diameter = LongestPathEdges(tree)

\* C7: for every tree of two or more nodes, tree_diameter <= 2 * max_depth - 1.
C7_DiameterBound ==
    (pc = "measured" /\ NodeCount(tree) >= 2) => diameter <= 2 * depth - 1

\* C7 witness: a measured tree of two or more nodes that meets the bound.
C7_Witness ==
    /\ pc = "measured"
    /\ NodeCount(tree) >= 2
    /\ depth >= 3
    /\ diameter = 2 * depth - 1

\* C8: on the empty tree the metrics return max_depth 0, is_balanced true and
\* diameter 0.
C8_EmptyTreeMetrics ==
    (pc = "measured" /\ tree = Nil) => (depth = 0 /\ balanced = TRUE /\ diameter = 0)

\* C8 witness: the empty tree a builder returned has been measured.
C8_Witness ==
    /\ pc = "measured"
    /\ tree = Nil
    /\ op = "build_from_level_order"
    /\ Len(input_data.items) > 0

\* C9: is_balanced_tree is true exactly when at every node of the tree the
\* heights of the two subtrees differ by at most 1, the height being what
\* max_depth returns for the subtree.
C9_BalancedAtEveryNode ==
    pc = "measured" =>
        /\ balanced = (\A s \in Subtrees(tree) :
                          abs(max_depth(left(s)) - max_depth(right(s))) <= 1)
        /\ \A s \in Subtrees(tree) : check_height(s)[2] = max_depth(s)

\* C9 witness: a measured tree found unbalanced whose root's own subtrees
\* differ in height by at most 1: the imbalance lies deeper.
C9_Witness ==
    /\ pc = "measured"
    /\ tree # Nil
    /\ abs(max_depth(left(tree)) - max_depth(right(tree))) <= 1
    /\ balanced = FALSE

\* C10: build_from_parenthesis ends in an error, returning no tree, on every
\* malformed text: unbalanced parentheses, a non-numeric or empty value
\* token, characters left over after the root's groups.
C10_MalformedTextRaises ==
    (op = "build_from_parenthesis" /\ MalformedText(input_data.items))
        => result.kind = "raise"

\* Pre-order listing of a tree: node, left subtree, right subtree.
RECURSIVE PreOrderOf(_)
PreOrderOf(t) ==
    IF t = Nil THEN <<>>
    ELSE <<data(t)>> \o PreOrderOf(left(t)) \o PreOrderOf(right(t))

\* Post-order listing of a tree: left subtree, right subtree, node.
RECURSIVE PostOrderOf(_)
PostOrderOf(t) ==
    IF t = Nil THEN <<>>
    ELSE PostOrderOf(left(t)) \o PostOrderOf(right(t)) \o <<data(t)>>

\* The left-right mirror image of a tree.
RECURSIVE MirrorOf(_)
MirrorOf(t) ==
    IF t = Nil THEN Nil ELSE <<data(t), MirrorOf(right(t)), MirrorOf(left(t))>>

ReverseOf(s) == [k \in 1..Len(s) |-> s[Len(s) + 1 - k]]

\* C11: for non-empty input of length n build_from_pre_order returns a tree of
\* exactly n nodes whose pre-order listing is the input, the cursor having
\* passed each position once and stopped at n.
C11_PreOrderRebuilds ==
    (op = "build_from_pre_order" /\ Len(input_data.items) > 0) =>
        /\ result.kind = "return"
        /\ NodeCount(result.value) = Len(input_data.items)
        /\ PreOrderOf(result.value) = input_data.items
        /\ pre_order_build_recursive(input_data.items, 0).index = Len(input_data.items)

\* C11 witness: build_from_pre_order has returned for a list of three or more
\* elements that are not all equal.
C11_Witness ==
    /\ op = "build_from_pre_order"
    /\ Len(input_data.items) >= 3
    /\ Cardinality(Range(input_data.items)) >= 2
    /\ PreOrderOf(result.value) = input_data.items

\* C12: for non-empty input of length n build_from_post_order returns a tree
\* of exactly n nodes whose post-order listing is the input, and that tree is
\* the mirror image of build_from_pre_order of the reversed input.
C12_PostOrderRebuilds ==
    (op = "build_from_post_order" /\ Len(input_data.items) > 0) =>
        /\ result.kind = "return"
        /\ NodeCount(result.value) = Len(input_data.items)
        /\ PostOrderOf(result.value) = input_data.items
        /\ result.value = MirrorOf(build_from_pre_order(ReverseOf(input_data.items)))

\* C12 witness: build_from_post_order has returned for a list of three or
\* more elements that differs from its own reversal.
C12_Witness ==
    /\ op = "build_from_post_order"
    /\ Len(input_data.items) >= 3
    /\ ReverseOf(input_data.items) # input_data.items
    /\ PostOrderOf(result.value) = input_data.items

\* C15: the tree of build_from_pre_order has no right child anywhere, the
\* tree of build_from_post_order no left child anywhere, and for input of
\* length n either has max_depth n.
C15_DegenerateChains ==
    /\ (op = "build_from_pre_order" /\ pc = "measured") =>
           /\ \A s \in Subtrees(tree) : right(s) = Nil
           /\ depth = Len(input_data.items)
    /\ (op = "build_from_post_order" /\ pc = "measured") =>
           /\ \A s \in Subtrees(tree) : left(s) = Nil
           /\ depth = Len(input_data.items)

\* C15 witness: the chain build_from_pre_order returned for a list of three
\* or more elements has been measured.
C15_Witness ==
    /\ op = "build_from_pre_order"
    /\ pc = "measured"
    /\ Len(input_data.items) >= 3
    /\ depth = Len(input_data.items)
    /\ left(tree) # Nil

\* C13: level-order construction returns the empty tree whenever the list is
\* empty or its first element is a null marker, whatever follows, in
\* build_from_level_order and in LevelOrderTreeConstructor.build_tree.
C13_LeadingMarkerEmptyTree ==
    /\ (op = "build_from_level_order" /\ pc # "loop"
           /\ (Len(passed.items) = 0 \/ passed.items[1] = null_marker))
           => result = Return(Nil)
    /\ (op = "LevelOrderTreeConstructor_build_tree"
           /\ (Len(passed.items) = 0 \/ passed.items[1] \in DefaultNullMarkers))
           => result = Return(Nil)

\* The parents of node j: the (node, side) pairs whose child reference is j.
ParentsOf(nodes, j) ==
    {<<k, "left">> : k \in {m \in 1..Len(nodes) : nodes[m].left = j}}
    \cup {<<k, "right">> : k \in {m \in 1..Len(nodes) : nodes[m].right = j}}

\* C14: in every state of the level-order loop and at its return, nodes are
\* served in the order they were created: the k-th created node (root k = 0)
\* has its left child made from input position 2k+1 only and its right child
\* from 2k+2 only, no position makes two nodes, the positions read are those
\* below i, every node but the root has exactly one parent, the queue holds
\* the nodes not yet served in creation order, and the positions left when
\* the queue empties make no node.
C14_FifoChildren ==
    (op = "build_from_level_order" /\ pc \in {"loop", "returned", "measured"}
        /\ loop # NoLoop) =>
        LET nodes == loop.nodes
            served == Len(nodes) - Len(loop.queue)
            lo == input_data.items
        IN /\ Len(origin) = Len(nodes)
           /\ origin[1] = 0
           /\ loop.i = 1 + 2 * served
           /\ loop.queue = [k \in 1..Len(loop.queue) |-> served + k]
           /\ \A k \in 1..Len(nodes) :
                 /\ origin[k] < loop.i /\ origin[k] < Len(lo)
                 /\ nodes[k].data = lo[origin[k] + 1]
                 /\ nodes[k].left # 0 => origin[nodes[k].left] = 2 * (k - 1) + 1
                 /\ nodes[k].right # 0 => origin[nodes[k].right] = 2 * (k - 1) + 2
                 /\ k > served => (nodes[k].left = 0 /\ nodes[k].right = 0)
           /\ \A j, k \in 1..Len(nodes) : j < k => origin[j] < origin[k]
           /\ ParentsOf(nodes, 1) = {}
           /\ \A j \in 2..Len(nodes) : Cardinality(ParentsOf(nodes, j)) = 1
           /\ pc # "loop" => NodeCount(result.value) = Len(nodes)

\* C14 witness: the loop has ended on an empty queue with input positions
\* left unread, after a node other than the root took a child.
C14_Witness ==
    /\ op = "build_from_level_order"
    /\ pc = "returned"
    /\ Len(loop.queue) = 0
    /\ loop.i < Len(input_data.items)
    /\ Len(loop.nodes) >= 3
    /\ loop.nodes[2].right = 3

\* C16: every construction operation leaves the caller's input sequence as
\* it was passed, same length and same elements, level-order input that
\* begins with null markers included.
C16_InputUnchanged ==
    op # "none" => input_data = passed

\* The integer written by the characters a+1..b of s: an optional '-', digits.
RECURSIVE WrittenDigits(_, _, _)
WrittenDigits(s, a, b) ==
    IF b <= a THEN 0 ELSE 10 * WrittenDigits(s, a, b - 1) + DigitVal(s[b])

WrittenInteger(s, a, b) ==
    IF s[a + 1] = "-" THEN 0 - WrittenDigits(s, a + 1, b) ELSE WrittenDigits(s, a, b)

\* The tree a well-formed node starting at cursor i writes: its integer, the
\* first group as left child, the second group as right child.
RECURSIVE WrittenTree(_, _)
WrittenTree(s, i) ==
    LET v == integer_end(s, i)
        has1 == v < Len(s) /\ s[v + 1] = "("
        g1 == IF has1 THEN group_end(s, v) ELSE v
        has2 == has1 /\ g1 < Len(s) /\ s[g1 + 1] = "("
    IN <<WrittenInteger(s, i, v),
         IF has1 THEN WrittenTree(s, v + 1) ELSE Nil,
         IF has2 THEN WrittenTree(s, g1 + 1) ELSE Nil>>

\* C17: for every well-formed text build_from_parenthesis returns the tree
\* the text writes (root integer, first group left, second group right, no
\* group a leaf, a single group the left child) and the cursor ends exactly
\* at the end of the text.
C17_WellFormedParses ==
    (op = "build_from_parenthesis" /\ WellFormedText(input_data.items)) =>
        /\ result = Return(WrittenTree(input_data.items, 0))
        /\ parse_tree(input_data.items, 0).i = Len(input_data.items)
        /\ (\A s \in Subtrees(result.value) : right(s) # Nil => left(s) # Nil)

\* C17 witness: a well-formed text whose root has two groups holding
\* different integers has been parsed.
C17_Witness ==
    /\ op = "build_from_parenthesis"
    /\ WellFormedText(input_data.items)
    /\ result.kind = "return"
    /\ left(result.value) # Nil
    /\ right(result.value) # Nil
    /\ data(left(result.value)) # data(right(result.value))

====
